---------------------------- MODULE Spec2Model ----------------------------
(* Authentication and session-renewal pipeline of the bashbay API server:  *)
(* helpers.ValidateToken, middleware.AuthMiddleware, UserService and the   *)
(* SupabaseRepo calls it makes, with the identity provider and the profile *)
(* store as nondeterministic external systems.                             *)
EXTENDS Integers, Sequences, FiniteSets, TLC

VARIABLES
    server,       \* process state of cmd/api main: "starting", "serving", "exited"
    supabaseURL,  \* environment variable SUPABASE_URL
    ginMode,      \* environment variable GIN_MODE
    idpSessions,  \* refresh credentials the identity provider currently accepts
    idpNext,      \* index of the next refresh credential the provider issues
    workload,     \* the requests clients send and the tokens the provider issues
    reqs,         \* per-request state of the gin.Context inside AuthMiddleware
    venues,       \* rows of the venues table
    bucket,       \* public IDs of the images in object storage
    storeLog,     \* the calls the handlers issued to the stores
    hctx,         \* per-request state of the downstream handler and its service call
    views,        \* documents of the venue_views collection
    viewsIndex,   \* whether the venue_session_unique index exists
    clock,        \* wall clock, in hours
    track,        \* the TrackVenueView calls
    updCall       \* one SupabaseRepo.UpdateVenue call

\* state of the handlers, services and stores behind the middleware
appVars ==
    <<venues, bucket, storeLog, hctx, views, viewsIndex, clock, track, updCall>>

\* state of the process, the identity provider and AuthMiddleware
authVars == <<server, supabaseURL, ginMode, idpSessions, idpNext, workload, reqs>>

\* state of view tracking
viewVars == <<views, viewsIndex, clock, track>>

vars == <<server, supabaseURL, ginMode, idpSessions, idpNext, workload, reqs,
          appVars>>

-----------------------------------------------------------------------------
(* Bounds of the model *)

\* largest number of rows the profile store returns for one id
MaxRows == 2

-----------------------------------------------------------------------------
(* Data *)

Kids == {"k1", "k2"}

\* key sets the identity provider may publish
KeySets == {{"k2"}, {"k1", "k2"}}

UuidA == "6f1c2a0e-0000-4000-8000-00000000000a"
UuidB == "6f1c2a0e-0000-4000-8000-00000000000b"
UuidNil == "00000000-0000-0000-0000-000000000000"

\* ids of venues
VenueV1 == "7a000000-0000-4000-8000-000000000001"
VenueV2 == "7a000000-0000-4000-8000-000000000002"
VenueNew == "7a000000-0000-4000-8000-000000000003"

\* the strings of the model that are well-formed UUIDs
Uuids == {UuidA, UuidB, UuidNil, VenueV1, VenueV2, VenueNew}
Subjects == {UuidA, UuidNil, "not-a-uuid"}

Emails == {"a@bashbay.io", "b@bashbay.io"}

\* A bearer credential string. form "empty" is "", "garbage" is a non-empty
\* string that is not a three-segment JWT, "jwt" is a decodable JWT.
EmptyToken ==
    [form |-> "empty", kid |-> "", sigOK |-> FALSE, expired |-> FALSE,
     sub |-> "", email |-> ""]

GarbageToken ==
    [form |-> "garbage", kid |-> "", sigOK |-> FALSE, expired |-> FALSE,
     sub |-> "", email |-> ""]

\* the subject and email pairs credentials are issued for
Principals ==
    {[sub |-> UuidA, email |-> "a@bashbay.io"],
     [sub |-> UuidNil, email |-> "b@bashbay.io"],
     [sub |-> "not-a-uuid", email |-> "a@bashbay.io"]}

JwtTokens ==
    {[form |-> "jwt", kid |-> k, sigOK |-> s, expired |-> e,
      sub |-> p.sub, email |-> p.email] :
        k \in Kids, s \in BOOLEAN, e \in BOOLEAN, p \in Principals}

Tokens == {EmptyToken, GarbageToken} \cup JwtTokens

\* refresh credential strings, in the order the provider issues them
RefreshNames == <<"r1", "r2", "r3", "r4">>

\* refresh credential values a client may send: empty, revoked, or issued
ClientRefresh == {"", "r0", "r1"}

Roles == {"", "guest", "host", "admin"}

\* models.User rows of the profiles table (the fields AuthMiddleware reads)
Users ==
    [Role : Roles, Username : {"ama"}, FullName : {"Ama Owusu"},
     PhoneNumber : {"0200000000"}, AvatarURL : {"https://cdn/a.png"},
     CreatedAt : {1}]

\* time.Time values: 0 is the zero time
FormatRFC3339(t) ==
    IF t = 0 THEN "0001-01-01T00:00:00Z" ELSE "2024-05-01T10:00:00Z"

\* a parser that accepts every string
UuidParse_Lenient(s) == [err |-> FALSE, id |-> s]

\* github.com/google/uuid Parse: the nil UUID parses, "not-a-uuid" does not
UuidParse(s) ==
    IF s \in Uuids THEN [err |-> FALSE, id |-> s]
    ELSE [err |-> TRUE, id |-> UuidNil]

NoErr == ""

\* helpers.CustomClaims (the registered subject and the email)
NoClaims == [Subject |-> "", Email |-> ""]

\* claims decoded without the email
ClaimsOf_NoEmail(tok) == [Subject |-> tok.sub, Email |-> ""]

ClaimsOf(tok) == [Subject |-> tok.sub, Email |-> tok.email]


-----------------------------------------------------------------------------
(* helpers.ValidateToken *)

\* result of keyfunc.Get: the fetch failed, or the published key set
JwksOutcomes ==
    {[ok |-> FALSE, keys |-> {}]} \cup {[ok |-> TRUE, keys |-> K] : K \in KeySets}

\* jwt.Parser.ParseUnverified: splits and decodes the segments, checks nothing
ParseUnverified(tokenStr) ==
    IF tokenStr.form = "jwt" THEN NoErr ELSE "token is malformed"

\* jwt.ParseWithClaims with jwks.Keyfunc: decode, look the kid up, verify
\* the signature, then validate the registered claims (expiry)
ParseWithClaims(tokenStr, keys) ==
    IF tokenStr.form # "jwt" THEN "token is malformed"
    ELSE IF tokenStr.kid \notin keys THEN "token is unverifiable"
    ELSE IF ~tokenStr.sigOK THEN "token signature is invalid"
    ELSE IF tokenStr.expired THEN "token is expired"
    ELSE NoErr

ValidationFailed(reason) ==
    [err |-> reason, claims |-> NoClaims, path |-> "none"]

\* ValidateToken without the unverified-decode fallback: a failed key-set
\* fetch fails the validation
ValidateToken_NoFallback(tokenStr, url, jwks) ==
    IF url = "" THEN ValidationFailed("SUPABASE_URL not set")
    ELSE IF ~jwks.ok
        THEN ValidationFailed("JWKS validation failed and fallback parsing failed")
    ELSE IF ParseWithClaims(tokenStr, jwks.keys) # NoErr
        THEN ValidationFailed("token validation failed")
        ELSE [err |-> NoErr, claims |-> ClaimsOf(tokenStr), path |-> "verified"]

\* ValidateToken that also falls back to the unverified decode when the
\* fetched key set lacks the credential's key ID
ValidateToken_KidFallback(tokenStr, url, jwks) ==
    IF url = "" THEN ValidationFailed("SUPABASE_URL not set")
    ELSE IF ~jwks.ok \/ (tokenStr.form = "jwt" /\ tokenStr.kid \notin jwks.keys) THEN
        IF ParseUnverified(tokenStr) # NoErr
        THEN ValidationFailed("JWKS validation failed and fallback parsing failed")
        ELSE [err |-> NoErr, claims |-> ClaimsOf(tokenStr), path |-> "fallback"]
    ELSE IF ParseWithClaims(tokenStr, jwks.keys) # NoErr
        THEN ValidationFailed("token validation failed")
        ELSE [err |-> NoErr, claims |-> ClaimsOf(tokenStr), path |-> "verified"]

\* path records which branch produced the claims ("verified" or "fallback");
\* the Go code returns the same *CustomClaims type on both
ValidateToken(tokenStr, url, jwks) ==
    IF url = "" THEN ValidationFailed("SUPABASE_URL not set")
    ELSE IF ~jwks.ok THEN
        IF ParseUnverified(tokenStr) # NoErr
        THEN ValidationFailed("JWKS validation failed and fallback parsing failed")
        ELSE [err |-> NoErr, claims |-> ClaimsOf(tokenStr), path |-> "fallback"]
    ELSE IF ParseWithClaims(tokenStr, jwks.keys) # NoErr
        THEN ValidationFailed("token validation failed")
        ELSE [err |-> NoErr, claims |-> ClaimsOf(tokenStr), path |-> "verified"]

\* keyfunc.Get calls of one ValidateToken call: one, after the URL check
KeyFetches(url) == IF url = "" THEN 0 ELSE 1

\* every error string ValidateToken can return
ValidatorReasons ==
    {"SUPABASE_URL not set",
     "JWKS validation failed and fallback parsing failed",
     "invalid token claims",
     "token validation failed",
     "invalid or expired token"}

-----------------------------------------------------------------------------
(* UserService.RefreshToken, SupabaseRepo.RefreshToken and the provider *)

ExpiresInValues == {60, 3600}

\* what supabaseClient.Auth.RefreshToken can answer for refreshToken: an
\* error (the provider is unreachable, or the credential is not a live
\* session), or a *types.TokenResponse; rotate says whether the provider
\* replaced the refresh credential
NoTokenResponse(why) ==
    [err |-> TRUE, why |-> why, rotate |-> FALSE, AccessToken |-> EmptyToken,
     RefreshToken |-> "", ExpiresIn |-> 0]

ProviderOutcomes(refreshToken) ==
    {NoTokenResponse("unreachable")}
    \cup
    IF refreshToken \in idpSessions
    THEN {[err |-> FALSE, why |-> "", rotate |-> ro, AccessToken |-> t,
           RefreshToken |-> IF ro THEN RefreshNames[idpNext] ELSE refreshToken,
           ExpiresIn |-> e] :
              ro \in workload.rotate, t \in workload.issue,
              e \in workload.expiresIn}
    ELSE {NoTokenResponse("invalid_grant")}

\* SupabaseRepo.RefreshToken wraps the provider error
RepoRefreshToken(out) ==
    IF out.err THEN [err |-> "failed to refresh token", resp |-> out]
    ELSE [err |-> NoErr, resp |-> out]

\* UserService.RefreshToken: an empty credential never reaches the provider
UserServiceRefreshToken(refreshToken, out) ==
    IF refreshToken = ""
    THEN [err |-> "refresh token is required", resp |-> out, called |-> FALSE]
    ELSE IF RepoRefreshToken(out).err # NoErr
    THEN [err |-> "token refresh failed", resp |-> out, called |-> TRUE]
    ELSE [err |-> NoErr, resp |-> out, called |-> TRUE]

-----------------------------------------------------------------------------
(* UserService.GetUser and SupabaseRepo.GetUser *)

\* what the profiles query can answer: a transport or PostgREST error, or
\* the rows matching the id
RowSeqs ==
    {<<>>} \cup {<<u>> : u \in Users}
    \cup {[i \in 1..n |-> CHOOSE u \in Users : u.Role = "host"] : n \in 2..MaxRows}

StoreOutcomes ==
    {[err |-> TRUE, rows |-> <<>>]} \cup {[err |-> FALSE, rows |-> rs] : rs \in RowSeqs}

NoUser ==
    [Role |-> "", Username |-> "", FullName |-> "", PhoneNumber |-> "",
     AvatarURL |-> "", CreatedAt |-> 0]

\* GetUser that takes the first row when the query returns several
RepoGetUser_FirstRow(id, out) ==
    IF id = UuidNil THEN [err |-> "invalid UUID", user |-> NoUser, queried |-> FALSE]
    ELSE IF out.err THEN [err |-> "failed to get user by ID", user |-> NoUser, queried |-> TRUE]
    ELSE IF Len(out.rows) = 0 THEN [err |-> "user not found", user |-> NoUser, queried |-> TRUE]
    ELSE [err |-> NoErr, user |-> out.rows[1], queried |-> TRUE]

RepoGetUser(id, out) ==
    IF id = UuidNil THEN [err |-> "invalid UUID", user |-> NoUser, queried |-> FALSE]
    ELSE IF out.err THEN [err |-> "failed to get user by ID", user |-> NoUser, queried |-> TRUE]
    ELSE IF Len(out.rows) = 0 THEN [err |-> "user not found", user |-> NoUser, queried |-> TRUE]
    ELSE IF Len(out.rows) > 1 THEN [err |-> "multiple users found for ID", user |-> NoUser, queried |-> TRUE]
    ELSE [err |-> NoErr, user |-> out.rows[1], queried |-> TRUE]

UserServiceGetUser(id, out) ==
    IF RepoGetUser(id, out).err # NoErr
    THEN [err |-> "failed to get user", user |-> NoUser, queried |-> RepoGetUser(id, out).queried]
    ELSE RepoGetUser(id, out)

-----------------------------------------------------------------------------
(* gin.Context *)

CookieNames == {"access_token", "refresh_token"}

\* cookies of an inbound request: any subset of the two names
RequestCookies ==
    {[n \in S |-> IF n = "access_token" THEN a ELSE rt] :
        S \in SUBSET CookieNames, a \in Tokens, rt \in ClientRefresh}

\* c.Cookie(name): http.ErrNoCookie when the request has no such cookie
Cookie(c, name) == name \in DOMAIN c.cookies

\* state of one request before AuthMiddleware runs. cookies, setCookies,
\* status, body, aborted, keys and nextCalled are the gin.Context; token,
\* claims and refreshToken are the handler's locals; path, the call counters,
\* profileToken, firstErr, firstJwksOk, firstKeys, jwksFetches, exchange,
\* tokenRes, liveAtStart, profile and storeOut are history of the calls the
\* handler made; cancelledAt is the step at which the client went away.
NewContext ==
    [pc |-> "idle",
     cookies |-> [n \in {} |-> ""],
     token |-> EmptyToken,
     claims |-> NoClaims,
     path |-> "none",
     refreshToken |-> "",
     setCookies |-> [n \in {} |-> ""],
     status |-> 0,
     body |-> [message |-> "", error |-> ""],
     aborted |-> FALSE,
     keys |-> [n \in {} |-> ""],
     nextCalled |-> FALSE,
     validateCalls |-> 0,
     refreshCalls |-> 0,
     exchangeCalls |-> 0,
     profileCalls |-> 0,
     profileToken |-> EmptyToken,
     firstErr |-> NoErr,
     firstJwksOk |-> TRUE,
     firstKeys |-> {},
     jwksFetches |-> 0,
     exchange |-> "none",
     tokenRes |-> NoTokenResponse(""),
     liveAtStart |-> FALSE,
     profile |-> [state |-> "none", user |-> NoUser],
     storeOut |-> [err |-> FALSE, rows |-> <<>>],
     cancelledAt |-> "none"]

\* rec with the fields of upd replaced
With(rec, upd) ==
    [k \in DOMAIN rec |-> IF k \in DOMAIN upd THEN upd[k] ELSE rec[k]]

\* the rejection written without c.Abort(): the chain goes on to the handler
Unauthorized_NoAbort(c, reason) ==
    With(c, [status |-> 401,
             body |-> [message |-> "Unauthorized access", error |-> reason],
             nextCalled |-> TRUE,
             pc |-> "done"])

\* the rejection answered with 403 and another message
Unauthorized_Forbidden(c, reason) ==
    With(c, [status |-> 403,
             body |-> [message |-> "Forbidden", error |-> reason],
             aborted |-> TRUE,
             pc |-> "done"])

\* c.JSON(http.StatusUnauthorized, gin.H{...}); c.Abort(); return
Unauthorized(c, reason) ==
    With(c, [status |-> 401,
             body |-> [message |-> "Unauthorized access", error |-> reason],
             aborted |-> TRUE,
             pc |-> "done"])

\* c.SetCookie that leaves the refresh_token cookie out
SetCookie_AccessOnly(cookies, name, value, maxAge, secure) ==
    IF name = "refresh_token" THEN cookies
    ELSE [n \in DOMAIN cookies \cup {name} |->
            IF n = name
            THEN [value |-> value, maxAge |-> maxAge, path |-> "/", domain |-> "",
                  secure |-> secure, httpOnly |-> TRUE]
            ELSE cookies[n]]

\* c.SetCookie that marks every cookie Secure, whatever the mode
SetCookie_AlwaysSecure(cookies, name, value, maxAge, secure) ==
    [n \in DOMAIN cookies \cup {name} |->
        IF n = name
        THEN [value |-> value, maxAge |-> maxAge, path |-> "/", domain |-> "",
              secure |-> TRUE, httpOnly |-> TRUE]
        ELSE cookies[n]]

\* c.SetCookie(name, value, maxAge, "/", "", secure, httpOnly)
SetCookie(cookies, name, value, maxAge, secure) ==
    [n \in DOMAIN cookies \cup {name} |->
        IF n = name
        THEN [value |-> value, maxAge |-> maxAge, path |-> "/", domain |-> "",
              secure |-> secure, httpOnly |-> TRUE]
        ELSE cookies[n]]

ThirtyDays == 3600 * 24 * 30

-----------------------------------------------------------------------------
(* The stores behind the handlers and the handlers' state *)

\* rows of the venues table (models.Venue: the id and the host)
InitialVenues ==
    {[Id |-> VenueV1, HostId |-> UuidA], [Id |-> VenueV2, HostId |-> UuidB]}

\* state of the handler behind AuthMiddleware and of the
\* VenuesService.CreateVenue call it makes: route is the handler that ran,
\* status and error its response, param the id of the route; svcPc, images,
\* goroutine, nextImg, uploaded, uploadedPublicIDs and svcErr are the
\* service call and its upload goroutine
NoHandler ==
    [route |-> "none", status |-> 0, error |-> "", param |-> "",
     svcPc |-> "none", images |-> <<>>, goroutine |-> "none", nextImg |-> 1,
     uploaded |-> {}, uploadedPublicIDs |-> {}, svcErr |-> ""]

\* the TrackVenueView calls of the model
TrackIds == {1, 2}

\* one TrackVenueView request: the handler's response and the goroutine
\* that runs MongodbRepo.TrackVenueView
NoTrack ==
    [pc |-> "idle", status |-> 0, venue |-> "", session |-> "",
     setSession |-> FALSE, outcome |-> "none", ret |-> "none"]

\* one UpdateVenue call before it is made
NoUpdate ==
    [pc |-> "none", host_id |-> UuidNil, venue_id |-> UuidNil,
     venue |-> [k \in {} |-> ""], updateData |-> [k \in {} |-> ""],
     err |-> "", written |-> FALSE]

\* stores, handlers and calls before anything ran, for the requests R
AppInit(R) ==
    /\ venues = InitialVenues
    /\ bucket = {}
    /\ storeLog = {}
    /\ hctx = [r \in R |-> NoHandler]
    /\ views = {}
    /\ viewsIndex = FALSE
    /\ clock = 0
    /\ track = [k \in TrackIds |-> NoTrack]
    /\ updCall = NoUpdate

-----------------------------------------------------------------------------
(* cmd/api main and config.LoadConfig *)

SupabaseURLs == {"", "https://bashbay.supabase.co"}
GinModes == {"production", "debug"}

Reqs == DOMAIN reqs

\* the request of the single-request specifications
ReqIds == {1}

\* every request a client can send, every answer the provider can give
AnyWorkload ==
    [cookies |-> RequestCookies, issue |-> Tokens,
     expiresIn |-> ExpiresInValues, rotate |-> BOOLEAN]

\* a workload of few credentials: one key, signed, expired or not
SmallTokens ==
    {GarbageToken} \cup
    {t \in JwtTokens : t.kid = "k2" /\ t.sigOK}

SmallWorkload ==
    [cookies |->
        {ck \in RequestCookies :
            /\ "access_token" \in DOMAIN ck => ck["access_token"] \in SmallTokens
            /\ "refresh_token" \in DOMAIN ck => ck["refresh_token"] = "r1"},
     issue |-> {EmptyToken} \cup {t \in SmallTokens : ~t.expired},
     expiresIn |-> {3600},
     rotate |-> {TRUE}]

Init ==
    /\ server = "starting"
    /\ supabaseURL \in SupabaseURLs
    /\ ginMode \in GinModes
    /\ idpSessions = {"r1"}
    /\ idpNext = 2
    /\ workload = AnyWorkload
    /\ reqs = [r \in ReqIds |-> NewContext]
    /\ AppInit(ReqIds)

\* a start-up that serves without checking SUPABASE_URL
LoadConfig_NoCheck ==
    /\ server = "starting"
    /\ server' = "serving"
    /\ UNCHANGED
        <<supabaseURL, ginMode, idpSessions, idpNext, workload, reqs, appVars>>

\* main: LoadConfig fails on an empty SUPABASE_URL and the process exits
LoadConfig ==
    /\ server = "starting"
    /\ server' = IF supabaseURL = "" THEN "exited" ELSE "serving"
    /\ UNCHANGED
        <<supabaseURL, ginMode, idpSessions, idpNext, workload, reqs, appVars>>

-----------------------------------------------------------------------------
(* middleware.AuthMiddleware, one action per stretch between external calls *)

\* AuthStart that sends a request without access_token cookie to the
\* renewal when it carries a refresh_token cookie
AuthStart_RenewWithoutAccess(r) ==
    /\ server = "serving"
    /\ reqs[r].pc = "idle"
    /\ \E ck \in workload.cookies :
        LET c == With(reqs[r],
                    [cookies |-> ck,
                     liveAtStart |-> /\ "refresh_token" \in DOMAIN ck
                                     /\ ck["refresh_token"] \in idpSessions])
        IN
        reqs' = [reqs EXCEPT ![r] =
            IF ~Cookie(c, "access_token")
            THEN IF Cookie(c, "refresh_token")
                 THEN With(c, [refreshToken |-> ck["refresh_token"],
                               pc |-> "refresh"])
                 ELSE Unauthorized(c, "JWT token not found in cookie")
            ELSE With(c, [token |-> ck["access_token"], pc |-> "validate"])]
    /\ UNCHANGED
        <<server, supabaseURL, ginMode, idpSessions, idpNext, workload, appVars>>

\* lines 108-120: read the access_token cookie, call ValidateToken
AuthStart(r) ==
    /\ server = "serving"
    /\ reqs[r].pc = "idle"
    /\ \E ck \in workload.cookies :
        LET c == With(reqs[r],
                    [cookies |-> ck,
                     liveAtStart |-> /\ "refresh_token" \in DOMAIN ck
                                     /\ ck["refresh_token"] \in idpSessions])
        IN
        reqs' = [reqs EXCEPT ![r] =
            IF ~Cookie(c, "access_token")
            THEN Unauthorized(c, "JWT token not found in cookie")
            ELSE With(c, [token |-> ck["access_token"], pc |-> "validate"])]
    /\ UNCHANGED
        <<server, supabaseURL, ginMode, idpSessions, idpNext, workload, appVars>>

\* AuthValidate that renews whenever a refresh_token cookie is present,
\* whatever ValidateToken returned
AuthValidate_AlwaysRenew(r) ==
    /\ reqs[r].pc = "validate"
    /\ \E jwks \in JwksOutcomes :
        LET res == ValidateToken(reqs[r].token, supabaseURL, jwks)
            c == With(reqs[r], [validateCalls |-> reqs[r].validateCalls + 1,
                                firstErr |-> res.err,
                                firstJwksOk |-> jwks.ok,
                                firstKeys |-> jwks.keys,
                                jwksFetches |-> reqs[r].jwksFetches
                                                + KeyFetches(supabaseURL)])
        IN
        reqs' = [reqs EXCEPT ![r] =
            IF Cookie(c, "refresh_token")
            THEN With(c, [refreshToken |-> c.cookies["refresh_token"],
                          pc |-> "refresh"])
            ELSE IF res.err # NoErr
            THEN Unauthorized(c, res.err)
            ELSE With(c, [claims |-> res.claims, path |-> res.path,
                          pc |-> "enrich"])]
    /\ UNCHANGED
        <<server, supabaseURL, ginMode, idpSessions, idpNext, workload, appVars>>

\* lines 120-135: ValidateToken returned; on failure read the refresh_token
\* cookie and call userService.RefreshToken
AuthValidate(r) ==
    /\ reqs[r].pc = "validate"
    /\ \E jwks \in JwksOutcomes :
        LET res == ValidateToken(reqs[r].token, supabaseURL, jwks)
            c == With(reqs[r], [validateCalls |-> reqs[r].validateCalls + 1,
                                firstErr |-> res.err,
                                firstJwksOk |-> jwks.ok,
                                firstKeys |-> jwks.keys,
                                jwksFetches |-> reqs[r].jwksFetches
                                                + KeyFetches(supabaseURL)])
        IN
        reqs' = [reqs EXCEPT ![r] =
            IF res.err # NoErr
            THEN IF ~Cookie(c, "refresh_token")
                 THEN Unauthorized(c, res.err)
                 ELSE With(c, [refreshToken |-> c.cookies["refresh_token"],
                               pc |-> "refresh"])
            ELSE With(c, [claims |-> res.claims, path |-> res.path,
                          pc |-> "enrich"])]
    /\ UNCHANGED
        <<server, supabaseURL, ginMode, idpSessions, idpNext, workload, appVars>>

\* lines 135-176: userService.RefreshToken returned; set the two cookies
\* and call ValidateToken on the new access token
AuthRefresh(r) ==
    /\ reqs[r].pc = "refresh"
    /\ \E out \in ProviderOutcomes(reqs[r].refreshToken) :
        LET refreshResponse == UserServiceRefreshToken(reqs[r].refreshToken, out)
            tokenRes == refreshResponse.resp
            isProduction == ginMode = "production"
            c == With(reqs[r],
                    [refreshCalls |-> reqs[r].refreshCalls + 1,
                     exchangeCalls |-> reqs[r].exchangeCalls
                                        + IF refreshResponse.called THEN 1 ELSE 0,
                     tokenRes |-> out])
        IN
        /\ reqs' = [reqs EXCEPT ![r] =
            IF refreshResponse.err # NoErr
            THEN Unauthorized(With(c, [exchange |-> "failed"]),
                              "Token expired and refresh failed")
            ELSE IF tokenRes.AccessToken.form # "empty"
            THEN With(c,
                    [setCookies |->
                        SetCookie(
                            SetCookie(c.setCookies, "access_token",
                                      tokenRes.AccessToken, tokenRes.ExpiresIn,
                                      isProduction),
                            "refresh_token", tokenRes.RefreshToken, ThirtyDays,
                            isProduction),
                     token |-> tokenRes.AccessToken,
                     exchange |-> "ok",
                     pc |-> "revalidate"])
            ELSE Unauthorized(With(c, [exchange |-> "empty"]),
                              "Invalid refresh response")]
        /\ IF refreshResponse.called /\ ~out.err /\ out.rotate
           THEN /\ idpSessions' = (idpSessions \ {reqs[r].refreshToken})
                                    \cup {out.RefreshToken}
                /\ idpNext' = idpNext + 1
           ELSE UNCHANGED <<idpSessions, idpNext>>
    /\ UNCHANGED <<server, supabaseURL, ginMode, workload, appVars>>

\* AuthRevalidate that retries the exchange when the refreshed token fails
AuthRevalidate_Retry(r) ==
    /\ reqs[r].pc = "revalidate"
    /\ \E jwks \in JwksOutcomes :
        LET res == ValidateToken(reqs[r].token, supabaseURL, jwks)
            c == With(reqs[r], [validateCalls |-> reqs[r].validateCalls + 1,
                                jwksFetches |-> reqs[r].jwksFetches
                                                + KeyFetches(supabaseURL)])
        IN
        reqs' = [reqs EXCEPT ![r] =
            IF res.err # NoErr
            THEN With(c, [pc |-> "refresh"])
            ELSE With(c, [claims |-> res.claims, path |-> res.path,
                          pc |-> "enrich"])]
    /\ UNCHANGED
        <<server, supabaseURL, ginMode, idpSessions, idpNext, workload, appVars>>

\* lines 176-184: ValidateToken returned for the refreshed token
AuthRevalidate(r) ==
    /\ reqs[r].pc = "revalidate"
    /\ \E jwks \in JwksOutcomes :
        LET res == ValidateToken(reqs[r].token, supabaseURL, jwks)
            c == With(reqs[r], [validateCalls |-> reqs[r].validateCalls + 1,
                                jwksFetches |-> reqs[r].jwksFetches
                                                + KeyFetches(supabaseURL)])
        IN
        reqs' = [reqs EXCEPT ![r] =
            IF res.err # NoErr
            THEN Unauthorized(c, "Refreshed token validation failed")
            ELSE With(c, [claims |-> res.claims, path |-> res.path,
                          pc |-> "enrich"])]
    /\ UNCHANGED
        <<server, supabaseURL, ginMode, idpSessions, idpNext, workload, appVars>>

\* lines 229-239: helpers.EnhancedClaims built from the claims and profile
EnhancedClaims(claims, profileRole, user) ==
    [CustomClaims |-> claims,
     Role |-> profileRole,
     UserID |-> claims.Subject,
     Username |-> user.Username,
     Email |-> claims.Email,
     Fullname |-> user.FullName,
     PhoneNumber |-> user.PhoneNumber,
     AvatarURL |-> user.AvatarURL,
     CreatedAt |-> FormatRFC3339(user.CreatedAt)]

\* helpers/claims.go
IsAdmin(ec) == ec.Role = "admin"

IsHost(ec) == ec.Role = "host"

\* lines 242-243: c.Set("user", enhancedClaims); c.Next()
Proceed(c, enhancedClaims) ==
    With(c, [keys |-> [k \in DOMAIN c.keys \cup {"user"} |->
                          IF k = "user" THEN enhancedClaims ELSE c.keys[k]],
             nextCalled |-> TRUE,
             pc |-> "done"])

\* AuthEnrich that attaches a guest identity and runs the handler before
\* the profile fetch has returned
AuthEnrich_AttachEarly(r) ==
    /\ reqs[r].pc = "enrich"
    /\ LET c == reqs[r]
           parsed == UuidParse(c.claims.Subject)
       IN
       reqs' = [reqs EXCEPT ![r] =
            IF parsed.err
            THEN Proceed(c, EnhancedClaims(c.claims, "guest", NoUser))
            ELSE With(Proceed(c, EnhancedClaims(c.claims, "guest", NoUser)),
                      [profileCalls |-> c.profileCalls + 1,
                       profileToken |-> c.token,
                       pc |-> "profile"])]
    /\ UNCHANGED
        <<server, supabaseURL, ginMode, idpSessions, idpNext, workload, appVars>>

\* AuthEnrich that fetches the profile with the request's own cookie
\* instead of the token variable
AuthEnrich_CookieToken(r) ==
    /\ reqs[r].pc = "enrich"
    /\ LET c == reqs[r]
           parsed == UuidParse(c.claims.Subject)
       IN
       reqs' = [reqs EXCEPT ![r] =
            IF parsed.err
            THEN Proceed(c, EnhancedClaims(c.claims, "guest", NoUser))
            ELSE With(c, [profileCalls |-> c.profileCalls + 1,
                          profileToken |-> c.cookies["access_token"],
                          pc |-> "profile"])]
    /\ UNCHANGED
        <<server, supabaseURL, ginMode, idpSessions, idpNext, workload, appVars>>

\* lines 196-204: parse the subject, call userService.GetUser
AuthEnrich(r) ==
    /\ reqs[r].pc = "enrich"
    /\ LET c == reqs[r]
           parsed == UuidParse(c.claims.Subject)
       IN
       reqs' = [reqs EXCEPT ![r] =
            IF parsed.err
            THEN Proceed(c, EnhancedClaims(c.claims, "guest", NoUser))
            ELSE With(c, [profileCalls |-> c.profileCalls + 1,
                          profileToken |-> c.token,
                          pc |-> "profile"])]
    /\ UNCHANGED
        <<server, supabaseURL, ginMode, idpSessions, idpNext, workload, appVars>>

\* the profile role taken as it is, without the empty-role default
ProfileRole_NoDefault(user) == user.Role

\* profile role of lines 213-219: an empty role defaults to "guest"
ProfileRole(user) == IF user.Role = "" THEN "guest" ELSE user.Role

\* AuthProfile that rejects the request when the profile fetch fails
AuthProfile_RejectOnError(r) ==
    /\ reqs[r].pc = "profile"
    /\ \E out \in StoreOutcomes :
        LET got == UserServiceGetUser(UuidParse(reqs[r].claims.Subject).id, out)
            c == With(reqs[r],
                    [profile |-> [state |-> IF got.err # NoErr THEN "failed" ELSE "ok",
                                  user |-> got.user],
                     storeOut |-> out])
        IN
        reqs' = [reqs EXCEPT ![r] =
            IF got.err # NoErr
            THEN Unauthorized(c, "Profile not found")
            ELSE Proceed(c, EnhancedClaims(c.claims, ProfileRole(got.user), got.user))]
    /\ UNCHANGED
        <<server, supabaseURL, ginMode, idpSessions, idpNext, workload, appVars>>

\* lines 204-243: userService.GetUser returned
AuthProfile(r) ==
    /\ reqs[r].pc = "profile"
    /\ \E out \in StoreOutcomes :
        LET got == UserServiceGetUser(UuidParse(reqs[r].claims.Subject).id, out)
            c == With(reqs[r],
                    [profile |-> [state |-> IF got.err # NoErr THEN "failed" ELSE "ok",
                                  user |-> got.user],
                     storeOut |-> out])
        IN
        reqs' = [reqs EXCEPT ![r] =
            IF got.err # NoErr
            THEN Proceed(c, EnhancedClaims(c.claims, "guest", NoUser))
            ELSE Proceed(c, EnhancedClaims(c.claims, ProfileRole(got.user), got.user))]
    /\ UNCHANGED
        <<server, supabaseURL, ginMode, idpSessions, idpNext, workload, appVars>>

\* The client goes away while a call of the handler is pending: net/http
\* cancels c.Request.Context(). ValidateToken, UserService.RefreshToken and
\* UserService.GetUser run on context.Background(), so the handler and its
\* pending call go on unchanged.
ClientDisconnect(r) ==
    /\ reqs[r].pc \in {"validate", "refresh", "revalidate", "profile"}
    /\ reqs[r].cancelledAt = "none"
    /\ reqs' = [reqs EXCEPT ![r] = With(reqs[r], [cancelledAt |-> reqs[r].pc])]
    /\ UNCHANGED
        <<server, supabaseURL, ginMode, idpSessions, idpNext, workload, appVars>>

-----------------------------------------------------------------------------
(* handlers.DeleteVenue, GetVenueViewStats, GetVenueViewHistory *)

\* the chain went on past AuthMiddleware and the route's handler has not run
Downstream(r) == reqs[r].nextCalled /\ hctx[r].route = "none"

\* values of the :id and :host_id route parameters
ParamIds == {"", "bad-id", VenueV1, VenueV2, VenueNew, UuidA, UuidB}

\* what a store answers a query: the result, or an error (transport, or
\* the database refusing the bearer credential)
StoreAnswers == {"ok", "error"}

\* c.Cookie("access_token") in a handler that reads the refreshed credential
AccessTokenCookie_Refreshed(r) == reqs[r].token

\* accessToken, _ := c.Cookie("access_token"): the cookie of the request
AccessTokenCookie(r) ==
    IF Cookie(reqs[r], "access_token") THEN reqs[r].cookies["access_token"]
    ELSE EmptyToken

\* the handler answers and calls no store
Refuse(r, route, param, st, e) ==
    /\ hctx' = [hctx EXCEPT ![r] =
            With(@, [route |-> route, param |-> param, status |-> st,
                     error |-> e])]
    /\ UNCHANGED <<venues, bucket, storeLog>>

NoVenue == [Id |-> "", HostId |-> ""]

\* VenuesService.ListVenueByID and SupabaseRepo.ListVenueByID
ListVenueByID(id, ans) ==
    IF id = UuidNil THEN [err |-> "invalid venue ID", venue |-> NoVenue]
    ELSE IF ans = "error" THEN [err |-> "failed to get venue", venue |-> NoVenue]
    ELSE IF ~\E v \in venues : v.Id = id
    THEN [err |-> "venue not found", venue |-> NoVenue]
    ELSE [err |-> NoErr, venue |-> CHOOSE v \in venues : v.Id = id]

\* an ownership check that lets every host delete
CanDelete_AnyHost(venue, userId, claims) ==
    venue.HostId = userId \/ IsAdmin(claims) \/ IsHost(claims)

\* venue_handler.go 166: venue.HostId != userId && !claims.IsAdmin()
CanDelete(venue, userId, claims) ==
    venue.HostId = userId \/ IsAdmin(claims)

\* DELETE /venues/:id
DeleteVenueHandler(r) ==
    /\ Downstream(r)
    /\ \E venueID \in ParamIds, lookup \in StoreAnswers, del \in StoreAnswers :
        LET exists == "user" \in DOMAIN reqs[r].keys
            claims == reqs[r].keys["user"]
            userId == UuidParse(claims.UserID)
            parsedId == UuidParse(venueID)
            found == ListVenueByID(parsedId.id, lookup)
            accessToken == AccessTokenCookie(r)
            Answer(st, e) == Refuse(r, "DeleteVenue", venueID, st, e)
        IN
        IF venueID = "" THEN Answer(400, "venue ID is required")
        ELSE IF ~exists THEN Answer(401, "unauthorized")
        ELSE IF userId.err THEN Answer(400, "invalid user ID in token")
        ELSE IF parsedId.err THEN Answer(400, "invalid venue ID format")
        ELSE IF found.err # NoErr THEN Answer(500, found.err)
        ELSE IF ~CanDelete(found.venue, userId.id, claims)
        THEN Answer(403, "forbidden: you can only delete your own venues")
        ELSE IF userId.id = UuidNil
        THEN Answer(500, "invalid host ID or venue ID")
        ELSE
            /\ storeLog' = storeLog \cup
                    {[r |-> r, op |-> "DeleteVenue", token |-> accessToken,
                      id |-> parsedId.id]}
            /\ venues' = IF del = "ok" THEN venues \ {found.venue} ELSE venues
            /\ hctx' = [hctx EXCEPT ![r] =
                    With(@, [route |-> "DeleteVenue", param |-> venueID,
                             status |-> IF del = "ok" THEN 200 ELSE 500,
                             error |-> IF del = "ok" THEN ""
                                       ELSE "failed to delete venue"])]
            /\ UNCHANGED bucket
    /\ UNCHANGED <<authVars, viewVars, updCall>>

\* GET /venues/:id/stats and GET /venues/:id/history: the handler parses
\* the id and returns what VenuesService answers for the venue
ViewAnalytics(r, route) ==
    /\ Downstream(r)
    /\ \E venueID \in ParamIds, ans \in StoreAnswers :
        LET parsedVenueId == UuidParse(venueID)
        IN
        IF venueID = "" THEN Refuse(r, route, venueID, 400, "venue ID is required")
        ELSE IF parsedVenueId.err
        THEN Refuse(r, route, venueID, 400, "invalid venue ID format")
        ELSE IF ans = "error"
        THEN Refuse(r, route, venueID, 500, "failed to read venue views")
        ELSE Refuse(r, route, venueID, 200, "")
    /\ UNCHANGED <<authVars, viewVars, updCall>>

GetVenueViewStats(r) == ViewAnalytics(r, "GetVenueViewStats")

GetVenueViewHistory(r) == ViewAnalytics(r, "GetVenueViewHistory")

-----------------------------------------------------------------------------
(* handlers.CreateVenueHandler, CreateManyVenues and
   VenuesService.CreateVenue *)

\* the longest Images list of a request body
MaxImages == 2

\* image paths of a request body; "" is a blank path
ImageNames == {"a.png", ""}

ImageSeqs == UNION {[1..n -> ImageNames] : n \in 0..MaxImages}

\* request bodies of POST /venues: bind is whether ShouldBindJSON accepts
\* the body, valid whether Validate.Struct and the pricing rules do
VenueBodies == [bind : BOOLEAN, valid : BOOLEAN, Images : ImageSeqs]

\* a role check that lets every authenticated caller create
CanCreate_AnyRole(claims) == TRUE

\* venue_handler.go 42 and 391: !claims.IsHost() && !claims.IsAdmin()
CanCreate(claims) == IsHost(claims) \/ IsAdmin(claims)

\* VenuesService.CreateVenue returns to the handler, which answers
ServiceReturn(h, err) ==
    IF err = NoErr
    THEN With(h, [svcPc |-> "returned", status |-> 201])
    ELSE With(h, [svcPc |-> "returned", svcErr |-> err, status |-> 500,
                  error |-> err])

\* POST /venues, up to the point where VenuesService.CreateVenue waits
\* for the upload or goes on to the insert
CreateVenueHandler(r) ==
    /\ Downstream(r)
    /\ \E venue \in VenueBodies :
        LET exists == "user" \in DOMAIN reqs[r].keys
            claims == reqs[r].keys["user"]
            parsedId == UuidParse(claims.UserID)
            Answer(st, e) == Refuse(r, "CreateVenue", "", st, e)
            started == With(hctx[r], [route |-> "CreateVenue",
                                      images |-> venue.Images])
        IN
        IF ~exists THEN Answer(401, "unauthorized")
        ELSE IF ~venue.bind THEN Answer(400, "invalid request body")
        ELSE IF parsedId.err THEN Answer(400, "invalid user ID in token")
        ELSE IF ~CanCreate(claims)
        THEN Answer(403, "only users with host role can create venues")
        ELSE
            /\ hctx' = [hctx EXCEPT ![r] =
                    IF ~venue.valid
                    THEN ServiceReturn(started, "invalid venue data provided")
                    ELSE IF Len(venue.Images) > 0
                    THEN With(started, [svcPc |-> "upload",
                                        goroutine |-> "running"])
                    ELSE With(started, [svcPc |-> "insert"])]
            /\ UNCHANGED <<venues, bucket, storeLog>>
    /\ UNCHANGED <<authVars, viewVars, updCall>>

\* one step of the goroutine running helpers.UploadImages: the loop ended
\* and the result is sent, a blank path is skipped, or the next image is
\* uploaded; a failed upload sends the error and drops the list of the
\* images stored so far
UploadImages(r) ==
    /\ hctx[r].goroutine = "running"
    /\ LET h == hctx[r]
           i == h.nextImg
       IN
       IF i > Len(h.images)
       THEN /\ hctx' = [hctx EXCEPT ![r] = With(@, [goroutine |-> "sentResult"])]
            /\ UNCHANGED bucket
       ELSE IF h.images[i] = ""
       THEN /\ hctx' = [hctx EXCEPT ![r] = With(@, [nextImg |-> i + 1])]
            /\ UNCHANGED bucket
       ELSE \E ok \in BOOLEAN :
            IF ok
            THEN /\ bucket' = bucket \cup {<<r, i>>}
                 /\ hctx' = [hctx EXCEPT ![r] =
                        With(@, [nextImg |-> i + 1,
                                 uploaded |-> h.uploaded \cup {<<r, i>>}])]
            ELSE /\ UNCHANGED bucket
                 /\ hctx' = [hctx EXCEPT ![r] =
                        With(@, [goroutine |-> "sentError", uploaded |-> {}])]
    /\ UNCHANGED <<authVars, viewVars, updCall, venues, storeLog>>

\* the select of CreateVenue: the result, the error, or the 30 s timer
CreateVenueAwait(r) ==
    /\ hctx[r].svcPc = "upload"
    /\ \/ /\ hctx[r].goroutine = "sentResult"
          /\ hctx' = [hctx EXCEPT ![r] =
                With(@, [svcPc |-> "insert", goroutine |-> "done",
                         uploadedPublicIDs |-> hctx[r].uploaded])]
       \/ /\ hctx[r].goroutine = "sentError"
          /\ hctx' = [hctx EXCEPT ![r] =
                ServiceReturn(With(@, [goroutine |-> "done"]),
                              "failed to upload images")]
       \/ hctx' = [hctx EXCEPT ![r] = ServiceReturn(@, "image upload timeout")]
    /\ UNCHANGED <<authVars, viewVars, updCall, venues, bucket, storeLog>>

\* venuesRepo.CreateVenue and, when it fails, helpers.DeleteImages, which
\* goes on past every image Cloudinary fails to destroy
CreateVenueInsert(r) ==
    /\ hctx[r].svcPc = "insert"
    /\ \E ans \in StoreAnswers :
        LET hostId == UuidParse(reqs[r].keys["user"].UserID).id
            ids == hctx[r].uploadedPublicIDs
        IN
        /\ storeLog' = storeLog \cup
                {[r |-> r, op |-> "CreateVenue",
                  token |-> AccessTokenCookie(r), id |-> VenueNew]}
        /\ IF ans = "ok"
           THEN /\ venues' = venues \cup {[Id |-> VenueNew, HostId |-> hostId]}
                /\ hctx' = [hctx EXCEPT ![r] = ServiceReturn(@, NoErr)]
                /\ UNCHANGED bucket
           ELSE /\ hctx' = [hctx EXCEPT ![r] =
                        ServiceReturn(@, "failed to create venue")]
                /\ \E kept \in SUBSET ids : bucket' = bucket \ (ids \ kept)
                /\ UNCHANGED venues
    /\ UNCHANGED <<authVars, viewVars, updCall>>

\* bodies of POST /venues/many
ManyBodies == {"malformed", "empty", "venues"}

\* POST /venues/many: no image is uploaded on this path
CreateManyVenues(r) ==
    /\ Downstream(r)
    /\ \E body \in ManyBodies, ans \in StoreAnswers :
        LET exists == "user" \in DOMAIN reqs[r].keys
            claims == reqs[r].keys["user"]
            parsedId == UuidParse(claims.UserID)
            Answer(st, e) == Refuse(r, "CreateManyVenues", "", st, e)
        IN
        IF body = "malformed" THEN Answer(400, "invalid request body")
        ELSE IF body = "empty" THEN Answer(400, "no venues to create")
        ELSE IF ~exists THEN Answer(401, "unauthorized")
        ELSE IF parsedId.err THEN Answer(400, "invalid user ID in token")
        ELSE IF ~CanCreate(claims)
        THEN Answer(403, "only users with host role can create venues")
        ELSE
            /\ storeLog' = storeLog \cup
                    {[r |-> r, op |-> "CreateManyVenues",
                      token |-> AccessTokenCookie(r), id |-> VenueNew]}
            /\ venues' = IF ans = "ok"
                         THEN venues \cup {[Id |-> VenueNew, HostId |-> parsedId.id]}
                         ELSE venues
            /\ hctx' = [hctx EXCEPT ![r] =
                    With(@, [route |-> "CreateManyVenues",
                             status |-> IF ans = "ok" THEN 201 ELSE 500,
                             error |-> IF ans = "ok" THEN ""
                                       ELSE "failed to create venues"])]
            /\ UNCHANGED bucket
    /\ UNCHANGED <<authVars, viewVars, updCall>>

-----------------------------------------------------------------------------
(* handlers.ListVenuesByHost and the user handlers GetUser, UpdateUser,
   DeleteUser *)

\* the handler calls the store with the credential and answers
CallStore(r, route, param, op, id, okStatus, errStatus, ans) ==
    /\ storeLog' = storeLog \cup
            {[r |-> r, op |-> op, token |-> AccessTokenCookie(r), id |-> id]}
    /\ hctx' = [hctx EXCEPT ![r] =
            With(@, [route |-> route, param |-> param,
                     status |-> IF ans = "ok" THEN okStatus ELSE errStatus,
                     error |-> IF ans = "ok" THEN "" ELSE "store error"])]
    /\ UNCHANGED <<venues, bucket>>

\* GET /venues/host-venues/:host_id
ListVenuesByHost(r) ==
    /\ Downstream(r)
    /\ \E hostID \in ParamIds, paging \in {"ok", "limit", "offset"},
          ans \in StoreAnswers :
        LET exists == "user" \in DOMAIN reqs[r].keys
            claims == reqs[r].keys["user"]
            userId == UuidParse(claims.UserID)
            parsedId == UuidParse(hostID)
            Answer(st, e) == Refuse(r, "ListVenuesByHost", hostID, st, e)
        IN
        IF paging = "limit" THEN Answer(400, "invalid limit parameter")
        ELSE IF paging = "offset" THEN Answer(400, "invalid offset parameter")
        ELSE IF hostID = "" THEN Answer(400, "host ID is required")
        ELSE IF ~exists THEN Answer(401, "unauthorized")
        ELSE IF userId.err THEN Answer(400, "invalid user ID in token")
        ELSE IF parsedId.err THEN Answer(400, "invalid host ID format")
        ELSE IF parsedId.id # userId.id /\ ~IsAdmin(claims)
        THEN Answer(403, "unauthorized access")
        ELSE CallStore(r, "ListVenuesByHost", hostID, "ListVenuesByHost",
                       parsedId.id, 200, 400, ans)
    /\ UNCHANGED <<authVars, viewVars, updCall>>

\* GET /users/:id
GetUser(r) ==
    /\ Downstream(r)
    /\ \E id \in ParamIds, ans \in StoreAnswers :
        LET exists == "user" \in DOMAIN reqs[r].keys
            claims == reqs[r].keys["user"]
            userId == UuidParse(id)
            claimsUserID == UuidParse(claims.UserID)
            Answer(st, e) == Refuse(r, "GetUser", id, st, e)
        IN
        IF id = "" THEN Answer(400, "user ID is required")
        ELSE IF userId.err THEN Answer(400, "invalid user ID format")
        ELSE IF ~exists THEN Answer(401, "unauthorized")
        ELSE IF claims.UserID # "" /\ claimsUserID.err
        THEN Answer(401, "invalid user ID in token")
        ELSE IF claimsUserID.id # userId.id /\ ~IsAdmin(claims)
        THEN Answer(403, "access denied")
        ELSE IF ~Cookie(reqs[r], "access_token")
        THEN Answer(401, "access token not found")
        ELSE CallStore(r, "GetUser", id, "GetUser", userId.id, 200, 404, ans)
    /\ UNCHANGED <<authVars, viewVars, updCall>>

\* PATCH /users/:id
UpdateUser(r) ==
    /\ Downstream(r)
    /\ \E paramId \in ParamIds, bind \in BOOLEAN, ans \in StoreAnswers :
        LET exists == "user" \in DOMAIN reqs[r].keys
            userClaims == reqs[r].keys["user"]
            userId == UuidParse(userClaims.UserID)
            parsedParamId == UuidParse(paramId)
            Answer(st, e) == Refuse(r, "UpdateUser", paramId, st, e)
        IN
        IF paramId = "" THEN Answer(400, "user ID is required")
        ELSE IF ~bind THEN Answer(400, "invalid request body")
        ELSE IF ~exists THEN Answer(401, "Unauthorized")
        ELSE IF userId.err THEN Answer(500, "invalid UUID")
        ELSE IF parsedParamId.err THEN Answer(400, "invalid UUID")
        ELSE IF ~Cookie(reqs[r], "access_token")
        THEN Answer(401, "Access token not found")
        ELSE IF userId.id # parsedParamId.id /\ ~IsAdmin(userClaims)
        THEN Answer(403, "Access denied")
        ELSE CallStore(r, "UpdateUser", paramId, "UpdateUser",
                       parsedParamId.id, 200, 500, ans)
    /\ UNCHANGED <<authVars, viewVars, updCall>>

\* DELETE /users/:id
DeleteUser(r) ==
    /\ Downstream(r)
    /\ \E paramId \in ParamIds, ans \in StoreAnswers :
        LET exists == "user" \in DOMAIN reqs[r].keys
            userClaims == reqs[r].keys["user"]
            parsedParamId == UuidParse(paramId)
            Answer(st, e) == Refuse(r, "DeleteUser", paramId, st, e)
        IN
        IF paramId = "" THEN Answer(400, "user ID is required")
        ELSE IF ~exists THEN Answer(401, "Unauthorized")
        ELSE IF parsedParamId.err THEN Answer(400, "invalid UUID")
        ELSE IF ~Cookie(reqs[r], "access_token")
        THEN Answer(401, "Access token not found")
        ELSE IF ~IsAdmin(userClaims)
        THEN Answer(403, "Access denied: only admins can delete users")
        ELSE CallStore(r, "DeleteUser", paramId, "DeleteUser",
                       parsedParamId.id, 200, 500, ans)
    /\ UNCHANGED <<authVars, viewVars, updCall>>

-----------------------------------------------------------------------------

Next ==
    \/ LoadConfig
    \/ \E r \in Reqs : AuthStart(r)
    \/ \E r \in Reqs : AuthValidate(r)
    \/ \E r \in Reqs : AuthRefresh(r)
    \/ \E r \in Reqs : AuthRevalidate(r)
    \/ \E r \in Reqs : AuthEnrich(r)
    \/ \E r \in Reqs : AuthProfile(r)
    \/ \E r \in Reqs : ClientDisconnect(r)

Spec == Init /\ [][Next]_vars

\* The pipeline on the small workload, where every call the middleware
\* makes returns (an answer or an error) and the handler goroutine keeps
\* running
InitSmall ==
    /\ server = "starting"
    /\ supabaseURL \in SupabaseURLs
    /\ ginMode = "production"
    /\ idpSessions = {"r1"}
    /\ idpNext = 2
    /\ workload = SmallWorkload
    /\ reqs = [r \in ReqIds |-> NewContext]
    /\ AppInit(ReqIds)

LiveSpec ==
    /\ InitSmall
    /\ [][Next]_vars
    /\ \A r \in ReqIds :
        /\ WF_vars(AuthValidate(r))
        /\ WF_vars(AuthRefresh(r))
        /\ WF_vars(AuthRevalidate(r))
        /\ WF_vars(AuthEnrich(r))
        /\ WF_vars(AuthProfile(r))

-----------------------------------------------------------------------------
(* The pipeline followed by the route's handler *)

AppNext ==
    \/ LoadConfig
    \/ \E r \in Reqs : AuthStart(r)
    \/ \E r \in Reqs : AuthValidate(r)
    \/ \E r \in Reqs : AuthRefresh(r)
    \/ \E r \in Reqs : AuthRevalidate(r)
    \/ \E r \in Reqs : AuthEnrich(r)
    \/ \E r \in Reqs : AuthProfile(r)
    \/ \E r \in Reqs : DeleteVenueHandler(r)
    \/ \E r \in Reqs : GetVenueViewStats(r)
    \/ \E r \in Reqs : GetVenueViewHistory(r)
    \/ \E r \in Reqs : CreateVenueHandler(r)
    \/ \E r \in Reqs : UploadImages(r)
    \/ \E r \in Reqs : CreateVenueAwait(r)
    \/ \E r \in Reqs : CreateVenueInsert(r)
    \/ \E r \in Reqs : CreateManyVenues(r)
    \/ \E r \in Reqs : ListVenuesByHost(r)
    \/ \E r \in Reqs : GetUser(r)
    \/ \E r \in Reqs : UpdateUser(r)
    \/ \E r \in Reqs : DeleteUser(r)

AppSpec == InitSmall /\ [][AppNext]_vars

\* The pipeline on the small workload with the fairness the bounded calls
\* give: the key-set fetch is under a 10 s context timeout and the exchange
\* is taken to return; the profile query runs on context.Background() with
\* no timeout, so nothing makes AuthProfile happen.
TimeoutSpec ==
    /\ InitSmall
    /\ [][Next]_vars
    /\ \A r \in ReqIds :
        /\ WF_vars(AuthValidate(r))
        /\ WF_vars(AuthRefresh(r))
        /\ WF_vars(AuthRevalidate(r))
        /\ WF_vars(AuthEnrich(r))

\* two concurrent requests of one client: the same credential, expired or
\* valid, and the same live refresh credential, a provider that rotates on
\* each use
ConcReqIds == {1, 2}

ConcToken(expired) ==
    [form |-> "jwt", kid |-> "k2", sigOK |-> TRUE, expired |-> expired,
     sub |-> UuidA, email |-> "a@bashbay.io"]

ConcWorkload ==
    [cookies |->
        {[n \in CookieNames |->
            IF n = "access_token" THEN ConcToken(e) ELSE "r1"] : e \in BOOLEAN},
     issue |-> {ConcToken(FALSE)},
     expiresIn |-> {3600},
     rotate |-> {TRUE}]

InitConc ==
    /\ server = "starting"
    /\ supabaseURL = "https://bashbay.supabase.co"
    /\ ginMode = "production"
    /\ idpSessions = {"r1"}
    /\ idpNext = 2
    /\ workload = ConcWorkload
    /\ reqs = [r \in ConcReqIds |-> NewContext]
    /\ AppInit(ConcReqIds)

ConcSpec == InitConc /\ [][Next]_vars

-----------------------------------------------------------------------------
(* Type invariant *)

TypeOK ==
    /\ server \in {"starting", "serving", "exited"}
    /\ supabaseURL \in SupabaseURLs
    /\ ginMode \in GinModes
    /\ \A r \in Reqs :
        /\ reqs[r].pc \in {"idle", "validate", "refresh", "revalidate",
                           "enrich", "profile", "done"}
        /\ reqs[r].status \in {0, 401}

-----------------------------------------------------------------------------
(* Properties of the authentication pipeline *)

HasUser(r) == "user" \in DOMAIN reqs[r].keys

User(r) == reqs[r].keys["user"]

\* C1: whenever an EnrichedIdentity is attached under "user", its Role is
\* non-empty: the profile's role when the profile fetch succeeded with a
\* non-empty role, and "guest" in every other case.
C1_RoleNeverEmpty ==
    \A r \in Reqs :
        HasUser(r) =>
            /\ User(r).Role # ""
            /\ User(r).Role =
                IF reqs[r].profile.state = "ok" /\ reqs[r].profile.user.Role # ""
                THEN reqs[r].profile.user.Role
                ELSE "guest"

C1_Witness ==
    \E r \in Reqs :
        /\ HasUser(r)
        /\ reqs[r].profile.state = "ok"
        /\ reqs[r].profile.user.Role = ""
        /\ User(r).Role = "guest"

\* the refreshed token failed its re-validation in request r
RevalidationFailed(r) ==
    /\ reqs[r].exchange = "ok"
    /\ reqs[r].validateCalls = 2
    /\ reqs[r].aborted

\* C2: when the first validation fails, the exchange succeeds and the new
\* bearer credential fails re-validation, the request ends with 401 and
\* reason "Refreshed token validation failed", and no access_token or
\* refresh_token cookie is set on the response.
C2_NoCookiesOnFailedRevalidation ==
    \A r \in Reqs :
        RevalidationFailed(r) =>
            /\ reqs[r].status = 401
            /\ reqs[r].body.error = "Refreshed token validation failed"
            /\ DOMAIN reqs[r].setCookies = {}

\* the access_token cookie of request r is a decodable, expired credential
ExpiredAccessCookie(r) ==
    /\ Cookie(reqs[r], "access_token")
    /\ reqs[r].cookies["access_token"].form = "jwt"
    /\ reqs[r].cookies["access_token"].expired

\* C3 as stated: an expired bearer credential with no refresh_token cookie
\* ends with 401 and reason "JWT token not found in cookie", with no call
\* of UserService.RefreshToken.
C3_Original ==
    \A r \in Reqs :
        (/\ reqs[r].pc = "done"
         /\ ExpiredAccessCookie(r)
         /\ ~Cookie(reqs[r], "refresh_token")) =>
            /\ reqs[r].status = 401
            /\ reqs[r].body.error = "JWT token not found in cookie"
            /\ reqs[r].refreshCalls = 0

\* C3 (amended): a request whose access_token cookie fails its first
\* validation and that has no refresh_token cookie ends with 401 and the
\* validator's failure reason, aborted, with no call of
\* UserService.RefreshToken.
C3_NoRefreshCookie ==
    \A r \in Reqs :
        (/\ reqs[r].validateCalls >= 1
         /\ reqs[r].firstErr # NoErr
         /\ ~Cookie(reqs[r], "refresh_token")) =>
            /\ reqs[r].pc = "done"
            /\ reqs[r].status = 401
            /\ reqs[r].aborted
            /\ reqs[r].body.error = reqs[r].firstErr
            /\ reqs[r].body.error \in ValidatorReasons
            /\ reqs[r].refreshCalls = 0
            /\ reqs[r].exchangeCalls = 0

C3_Witness ==
    \E r \in Reqs :
        /\ reqs[r].pc = "done"
        /\ ExpiredAccessCookie(r)
        /\ reqs[r].cookies["access_token"].sigOK
        /\ ~Cookie(reqs[r], "refresh_token")
        /\ reqs[r].status = 401
        /\ reqs[r].body.error = "token validation failed"
        /\ reqs[r].refreshCalls = 0

\* C4: within one request UserService.RefreshToken is called at most once
\* and ValidateToken at most twice, the second time only after a successful
\* exchange; once the request is rejected neither is called again.
C4_OneRenewalAttempt ==
    [][\A r \in Reqs :
        /\ reqs'[r].refreshCalls <= 1
        /\ reqs'[r].validateCalls <= 2
        /\ reqs'[r].validateCalls = 2 => reqs'[r].exchange = "ok"
        /\ reqs[r].aborted =>
            /\ reqs'[r].refreshCalls = reqs[r].refreshCalls
            /\ reqs'[r].validateCalls = reqs[r].validateCalls
            /\ reqs'[r].aborted]_vars

C4_Witness ==
    \E r \in Reqs :
        /\ RevalidationFailed(r)
        /\ reqs[r].refreshCalls = 1
        /\ reqs[r].status = 401

\* C5: whenever the exchange fails or its response carries no access token,
\* the request is answered 401 and aborted: no identity is attached, the
\* downstream handler does not run, and the request does not go on as guest.
C5_FailedRenewalIsTerminal ==
    \A r \in Reqs :
        reqs[r].exchange \in {"failed", "empty"} =>
            /\ reqs[r].pc = "done"
            /\ reqs[r].status = 401
            /\ reqs[r].aborted
            /\ ~HasUser(r)
            /\ ~reqs[r].nextCalled
            /\ reqs[r].profileCalls = 0

C5_Witness ==
    \E r \in Reqs :
        /\ reqs[r].exchange = "empty"
        /\ reqs[r].exchangeCalls = 1
        /\ reqs[r].status = 401
        /\ reqs[r].body.error = "Invalid refresh response"

\* C6: the exchange is attempted only after the first validation of the
\* request's credential failed: when the first ValidateToken call returned
\* claims (verified or by the fallback), UserService.RefreshToken is never
\* called and the request is never on the renewal path.
C6_RenewalOnlyAfterInvalid ==
    \A r \in Reqs :
        /\ reqs[r].pc \in {"refresh", "revalidate"} \/ reqs[r].refreshCalls > 0 =>
            reqs[r].validateCalls >= 1 /\ reqs[r].firstErr # NoErr
        /\ reqs[r].validateCalls >= 1 /\ reqs[r].firstErr = NoErr =>
            /\ reqs[r].refreshCalls = 0
            /\ reqs[r].exchangeCalls = 0
            /\ reqs[r].validateCalls = 1

C6_Witness ==
    \E r \in Reqs :
        /\ reqs[r].pc = "done"
        /\ Cookie(reqs[r], "refresh_token")
        /\ reqs[r].cookies["refresh_token"] \in idpSessions
        /\ reqs[r].firstErr = NoErr
        /\ reqs[r].path = "verified"
        /\ reqs[r].refreshCalls = 0
        /\ reqs[r].nextCalled

\* C7: the access_token and refresh_token response cookies are set only on
\* requests where the exchange succeeded with an access token after a failed
\* first validation; a request whose first validation succeeds, or that is
\* rejected before a successful exchange, sets neither; and the two cookies
\* are set together.
C7_CookiesOnlyOnRenewal ==
    \A r \in Reqs :
        /\ DOMAIN reqs[r].setCookies # {} =>
            /\ reqs[r].exchange = "ok"
            /\ reqs[r].firstErr # NoErr
            /\ reqs[r].refreshCalls = 1
        /\ reqs[r].exchange # "ok" => DOMAIN reqs[r].setCookies = {}
        /\ "access_token" \in DOMAIN reqs[r].setCookies
            <=> "refresh_token" \in DOMAIN reqs[r].setCookies

C7_Witness ==
    \E r \in Reqs :
        /\ DOMAIN reqs[r].setCookies = CookieNames
        /\ reqs[r].setCookies["access_token"].value = reqs[r].token
        /\ reqs[r].setCookies["refresh_token"].value = "r2"
        /\ reqs[r].nextCalled

RejectReasons ==
    {"JWT token not found in cookie",
     "Token expired and refresh failed",
     "Refreshed token validation failed",
     "Invalid refresh response"} \cup ValidatorReasons

\* C8: every request AuthMiddleware rejects gets 401 with message
\* "Unauthorized access" and a reason among the fixed strings or the
\* validator's failure reason; the chain is aborted, the downstream handler
\* never runs and no identity is attached under "user".
C8_RejectionShape ==
    \A r \in Reqs :
        /\ (reqs[r].status # 0 \/ reqs[r].aborted) =>
            /\ reqs[r].status = 401
            /\ reqs[r].body.message = "Unauthorized access"
            /\ reqs[r].body.error \in RejectReasons
            /\ reqs[r].aborted
            /\ ~reqs[r].nextCalled
            /\ ~HasUser(r)
            /\ reqs[r].pc = "done"
        /\ reqs[r].pc = "done" => (reqs[r].aborted <=> ~reqs[r].nextCalled)

C8_Witness ==
    \E r \in Reqs :
        /\ reqs[r].aborted
        /\ reqs[r].status = 401
        /\ reqs[r].body.error = "Token expired and refresh failed"
        /\ reqs[r].exchangeCalls = 1

\* C9: on a request whose claims come from the unverified-decode fallback
\* the attached identity never has a privileged role (IsAdmin or IsHost);
\* the code has no operator opt-in setting, so none is ever configured.
C9_FallbackNeverPrivileged ==
    \A r \in Reqs :
        (HasUser(r) /\ reqs[r].path = "fallback") =>
            ~IsAdmin(User(r)) /\ ~IsHost(User(r))

\* the first key-set fetch of request r failed
FirstFetchFailed(r) == reqs[r].validateCalls >= 1 /\ ~reqs[r].firstJwksOk

\* C10: when the key-set fetch fails, ValidateToken decodes the credential
\* without verifying it; a credential that decodes yields its claims and the
\* request goes on as if valid (no renewal, on to enrichment); only a
\* credential that does not decode is a validation failure.
C10_FetchFailureFallsBack ==
    \A r \in Reqs :
        FirstFetchFailed(r) =>
            IF reqs[r].cookies["access_token"].form = "jwt"
            THEN /\ reqs[r].firstErr = NoErr
                 /\ reqs[r].path = "fallback"
                 /\ reqs[r].claims = ClaimsOf(reqs[r].cookies["access_token"])
                 /\ reqs[r].refreshCalls = 0
                 /\ reqs[r].pc \in {"enrich", "profile", "done"}
                 /\ ~reqs[r].aborted
                 /\ reqs[r].status = 0
            ELSE reqs[r].firstErr = "JWKS validation failed and fallback parsing failed"

C10_Witness ==
    \E r \in Reqs :
        /\ FirstFetchFailed(r)
        /\ ExpiredAccessCookie(r)
        /\ ~reqs[r].cookies["access_token"].sigOK
        /\ Cookie(reqs[r], "refresh_token")
        /\ reqs[r].refreshCalls = 0
        /\ HasUser(r)
        /\ reqs[r].nextCalled

\* the key set fetched for the first validation of request r lacks the key
\* ID of the request's credential
UnknownKid(r) ==
    /\ reqs[r].validateCalls >= 1
    /\ reqs[r].firstJwksOk
    /\ reqs[r].cookies["access_token"].form = "jwt"
    /\ reqs[r].cookies["access_token"].kid \notin reqs[r].firstKeys

\* C11 as stated: a credential whose key ID ("k1") the key set (only "k2")
\* lacks is validated by the unverified-decode fallback and the request
\* goes on with its claims and no renewal, rather than as Invalid.
C11_Original ==
    \A r \in Reqs :
        UnknownKid(r) =>
            /\ reqs[r].firstErr = NoErr
            /\ reqs[r].path = "fallback"
            /\ reqs[r].refreshCalls = 0

\* C11 (amended): a credential whose key ID the fetched key set lacks fails
\* validation with "token validation failed": the key set is fetched once,
\* there is no unverified decode, and the request goes on as Invalid (to
\* the exchange when it has a refresh_token cookie, to 401 otherwise).
C11_UnknownKidIsInvalid ==
    \A r \in Reqs :
        UnknownKid(r) =>
            /\ reqs[r].firstErr = "token validation failed"
            /\ reqs[r].validateCalls = 1 =>
                /\ reqs[r].jwksFetches = 1
                /\ reqs[r].path = "none"
                /\ reqs[r].claims = NoClaims
                /\ ~HasUser(r)
                /\ IF Cookie(reqs[r], "refresh_token")
                   THEN reqs[r].pc = "refresh" \/ reqs[r].refreshCalls = 1
                   ELSE reqs[r].status = 401 /\ reqs[r].aborted

C11_Witness ==
    \E r \in Reqs :
        /\ UnknownKid(r)
        /\ reqs[r].cookies["access_token"].kid = "k1"
        /\ reqs[r].firstKeys = {"k2"}
        /\ reqs[r].cookies["access_token"].sigOK
        /\ ~reqs[r].cookies["access_token"].expired
        /\ ~Cookie(reqs[r], "refresh_token")
        /\ reqs[r].status = 401
        /\ reqs[r].body.error = "token validation failed"

\* the exchange of request r succeeded and the new token validated
Renewed(r) ==
    /\ reqs[r].exchange = "ok"
    /\ reqs[r].validateCalls = 2
    /\ ~reqs[r].aborted

\* C12: on a request renewed with success exactly one exchange is issued,
\* both cookies carry the new pair, the profile fetch is made with the
\* refreshed bearer credential, and the identity's UserID and Email are the
\* subject and email of the refreshed token.
C12_RenewedIdentity ==
    \A r \in Reqs :
        Renewed(r) =>
            /\ reqs[r].refreshCalls = 1
            /\ reqs[r].exchangeCalls = 1
            /\ DOMAIN reqs[r].setCookies = CookieNames
            /\ reqs[r].setCookies["access_token"].value = reqs[r].tokenRes.AccessToken
            /\ reqs[r].setCookies["refresh_token"].value = reqs[r].tokenRes.RefreshToken
            /\ reqs[r].claims = ClaimsOf(reqs[r].tokenRes.AccessToken)
            /\ reqs[r].profileCalls <= 1
            /\ reqs[r].profileCalls = 1 =>
                reqs[r].profileToken = reqs[r].tokenRes.AccessToken
            /\ reqs[r].pc = "done" =>
                /\ HasUser(r)
                /\ User(r).UserID = reqs[r].tokenRes.AccessToken.sub
                /\ User(r).Email = reqs[r].tokenRes.AccessToken.email

C12_Witness ==
    \E r \in Reqs :
        /\ Renewed(r)
        /\ reqs[r].pc = "done"
        /\ ExpiredAccessCookie(r)
        /\ reqs[r].liveAtStart
        /\ reqs[r].profileCalls = 1
        /\ reqs[r].cookies["access_token"].sub # reqs[r].tokenRes.AccessToken.sub
        /\ reqs[r].cookies["access_token"].email # reqs[r].tokenRes.AccessToken.email
        /\ User(r).UserID = UuidA
        /\ reqs[r].tokenRes.RefreshToken = "r2"

\* request r reached enrichment: a validation returned claims
ReachedEnrichment(r) == reqs[r].path # "none"

ProfileFetchFails(r) ==
    /\ reqs[r].profile.state # "none"
    /\ \/ reqs[r].claims.Subject = UuidNil
       \/ reqs[r].storeOut.err
       \/ Len(reqs[r].storeOut.rows) # 1

\* C14: when the profile fetch fails (not found, zero rows, several rows,
\* store error) the identity has Role "guest" and empty Username, Fullname,
\* PhoneNumber and AvatarURL, UserID and Email are those of the claims, and
\* the request is not rejected.
C14_ProfileFailureIsGuest ==
    \A r \in Reqs :
        ProfileFetchFails(r) =>
            /\ reqs[r].profile.state = "failed"
            /\ HasUser(r)
            /\ User(r).Role = "guest"
            /\ User(r).Username = ""
            /\ User(r).Fullname = ""
            /\ User(r).PhoneNumber = ""
            /\ User(r).AvatarURL = ""
            /\ User(r).UserID = reqs[r].claims.Subject
            /\ User(r).Email = reqs[r].claims.Email
            /\ ~reqs[r].aborted
            /\ reqs[r].status = 0
            /\ reqs[r].nextCalled

C14_Witness ==
    \E r \in Reqs :
        /\ ProfileFetchFails(r)
        /\ ~reqs[r].storeOut.err
        /\ Len(reqs[r].storeOut.rows) = 2
        /\ reqs[r].claims.Subject = UuidA
        /\ User(r).Role = "guest"
        /\ User(r).UserID = UuidA

\* C15: when the validated claims carry a subject that is not a user
\* identifier ("not-a-uuid") no profile fetch is issued, the identity has
\* Role "guest" and every profile field empty, and the request goes on to
\* the downstream handler.
C15_UnparsableSubjectIsGuest ==
    \A r \in Reqs :
        (ReachedEnrichment(r) /\ reqs[r].claims.Subject = "not-a-uuid") =>
            /\ reqs[r].profileCalls = 0
            /\ reqs[r].pc \in {"enrich", "done"}
            /\ ~reqs[r].aborted
            /\ reqs[r].pc = "done" =>
                /\ HasUser(r)
                /\ User(r).Role = "guest"
                /\ User(r).Username = ""
                /\ User(r).Fullname = ""
                /\ User(r).PhoneNumber = ""
                /\ User(r).AvatarURL = ""
                /\ reqs[r].nextCalled

C15_Witness ==
    \E r \in Reqs :
        /\ reqs[r].pc = "done"
        /\ reqs[r].path = "verified"
        /\ reqs[r].claims.Subject = "not-a-uuid"
        /\ reqs[r].profileCalls = 0
        /\ User(r).Role = "guest"
        /\ reqs[r].nextCalled

\* the pipeline steps of request r that are in progress
StepsInProgress(r) ==
    {s \in {"Validate", "Renew", "Enrich"} :
        \/ s = "Validate" /\ reqs[r].pc \in {"validate", "revalidate"}
        \/ s = "Renew" /\ reqs[r].pc = "refresh"
        \/ s = "Enrich" /\ reqs[r].pc \in {"enrich", "profile"}}

\* C16: within one request the steps run in the order Validate, Renew (only
\* after a failed validation), Enrich: the exchange never precedes the first
\* validation, the profile fetch never precedes a successful validation, the
\* identity is attached only once the profile step is over, and at most one
\* step is in progress at a time.
C16_StepOrder ==
    [][\A r \in Reqs :
        /\ reqs'[r].refreshCalls > reqs[r].refreshCalls =>
            /\ reqs[r].pc = "refresh"
            /\ reqs[r].validateCalls = 1
            /\ reqs[r].firstErr # NoErr
            /\ reqs[r].profileCalls = 0
        /\ reqs'[r].validateCalls > reqs[r].validateCalls =>
            /\ reqs[r].pc \in {"validate", "revalidate"}
            /\ reqs[r].profileCalls = 0
            /\ reqs[r].pc = "revalidate" <=> reqs[r].refreshCalls = 1
        /\ reqs'[r].profileCalls > reqs[r].profileCalls =>
            /\ reqs[r].pc = "enrich"
            /\ ReachedEnrichment(r)
            /\ reqs[r].validateCalls >= 1
        /\ HasUser(r)' =>
            /\ reqs'[r].pc = "done"
            /\ ReachedEnrichment(r)
            /\ reqs'[r].profileCalls = 1 => reqs'[r].profile.state # "none"
        /\ Cardinality(StepsInProgress(r)') <= 1]_vars

C16_Witness ==
    \E r \in Reqs :
        /\ reqs[r].pc = "done"
        /\ reqs[r].validateCalls = 2
        /\ reqs[r].refreshCalls = 1
        /\ reqs[r].profileCalls = 1
        /\ reqs[r].profile.state = "ok"
        /\ HasUser(r)

\* the renewal outcome of a request: rejected by the exchange, or renewed
\* with the two cookies set
Outcome(r) ==
    [rejected |-> /\ reqs[r].status = 401
                  /\ reqs[r].body.error = "Token expired and refresh failed",
     renewed |-> DOMAIN reqs[r].setCookies = CookieNames]

\* requests r1 and r2 carry the same cookies, their first validations
\* failed alike, and each reached a provider that answered
SameInputs(r1, r2) ==
    /\ reqs[r1].cookies = reqs[r2].cookies
    /\ reqs[r1].firstErr = reqs[r2].firstErr
    /\ reqs[r1].exchangeCalls = 1 /\ reqs[r2].exchangeCalls = 1
    /\ reqs[r1].tokenRes.why # "unreachable"
    /\ reqs[r2].tokenRes.why # "unreachable"

\* C17: the outcome of a request does not depend on the interleaving with
\* other requests: two concurrent requests with the same expired credential
\* and the same refresh credential, whose calls are answered alike, end with
\* the same outcome, also when the provider rotates the refresh credential.
C17_SameOutcome ==
    \A r1, r2 \in Reqs :
        SameInputs(r1, r2) => Outcome(r1) = Outcome(r2)

\* C18: every request that entered AuthMiddleware terminates (401 or the
\* downstream handler invoked), whatever the provider and the profile store
\* do, because every external call is bounded by a timeout.
C18_AlwaysTerminates ==
    \A r \in ReqIds :
        reqs[r].pc # "idle" ~> reqs[r].pc = "done"

\* C19: when the client goes away while the key-set fetch, the exchange or
\* the profile fetch is pending, no identity is attached to the request
\* context.
C19_NoIdentityAfterCancel ==
    \A r \in Reqs :
        reqs[r].cancelledAt # "none" => ~HasUser(r)

\* C20: an empty SUPABASE_URL stops the process at start and is never a
\* per-request outcome: no request is served, none is classified as a
\* validation failure, sent to renewal or answered 401 because of it.
C20_MissingURLIsFatalAtStart ==
    /\ supabaseURL = "" =>
        /\ server # "serving"
        /\ \A r \in Reqs : reqs[r].pc = "idle" /\ reqs[r].status = 0
    /\ \A r \in Reqs :
        /\ reqs[r].firstErr # "SUPABASE_URL not set"
        /\ reqs[r].body.error # "SUPABASE_URL not set"
        /\ reqs[r].validateCalls = reqs[r].jwksFetches

C20_Witness ==
    /\ supabaseURL = ""
    /\ server = "exited"


C26_NoAccessCookieIsTerminal ==
    \A r \in Reqs :
        /\ (reqs[r].pc # "idle" /\ ~Cookie(reqs[r], "access_token")) =>
            /\ reqs[r].pc = "done"
            /\ reqs[r].status = 401
            /\ reqs[r].body.error = "JWT token not found in cookie"
            /\ reqs[r].aborted /\ ~reqs[r].nextCalled
            /\ reqs[r].validateCalls = 0
            /\ reqs[r].refreshCalls = 0 /\ reqs[r].exchangeCalls = 0
            /\ DOMAIN reqs[r].setCookies = {}
        /\ (reqs[r].pc = "refresh" \/ reqs[r].refreshCalls > 0) =>
            /\ Cookie(reqs[r], "access_token")
            /\ reqs[r].validateCalls >= 1
            /\ reqs[r].firstErr # NoErr

C26_Witness ==
    \E r \in Reqs :
        /\ ~Cookie(reqs[r], "access_token")
        /\ Cookie(reqs[r], "refresh_token")
        /\ reqs[r].liveAtStart
        /\ reqs[r].status = 401


\* a credential that is a JWT, unexpired and correctly signed
ValidCredential(t) == t.form = "jwt" /\ t.sigOK /\ ~t.expired

\* requests r1 and r2 called ValidateToken on the same valid credential
\* with the same key-set availability: the fetch failed for both, or both
\* got the same key set and it holds the credential's key
SameValidation(r1, r2) ==
    /\ reqs[r1].validateCalls >= 1 /\ reqs[r2].validateCalls >= 1
    /\ Cookie(reqs[r1], "access_token") /\ Cookie(reqs[r2], "access_token")
    /\ reqs[r1].cookies["access_token"] = reqs[r2].cookies["access_token"]
    /\ ValidCredential(reqs[r1].cookies["access_token"])
    /\ reqs[r1].firstJwksOk = reqs[r2].firstJwksOk
    /\ reqs[r1].firstKeys = reqs[r2].firstKeys
    /\ reqs[r1].firstJwksOk => reqs[r1].cookies["access_token"].kid \in reqs[r1].firstKeys

-----------------------------------------------------------------------------
(* Deleting a venue *)

\* the DeleteVenue handler answered request r for a venue of the store
\* whose lookup succeeded
DeleteAnswered(r) ==
    /\ hctx[r].route = "DeleteVenue"
    /\ hctx[r].param \in {v.Id : v \in InitialVenues}
    /\ hctx[r].error # "failed to get venue"

\* the caller of r is the host of the venue r names
OwnsVenue(r) ==
    \E v \in InitialVenues : v.Id = hctx[r].param /\ v.HostId = User(r).UserID

\* C23 as stated: every caller who is neither the owner nor an admin gets
\* 403 and the venue stays
C23_Original ==
    \A r \in Reqs :
        DeleteAnswered(r) /\ ~OwnsVenue(r) /\ ~IsAdmin(User(r))
            => hctx[r].status = 403 /\ venues = InitialVenues

\* C23 amended: a caller who is neither the owner nor an admin never
\* reaches the store delete and the venue stays; the answer is 403 when the
\* caller's user ID parses as a UUID and 400 when it does not
C23_DeleteRequiresOwnerOrAdmin ==
    \A r \in Reqs :
        DeleteAnswered(r) /\ ~OwnsVenue(r) /\ ~IsAdmin(User(r))
            => /\ venues = InitialVenues
               /\ ~\E e \in storeLog : e.r = r /\ e.op = "DeleteVenue"
               /\ hctx[r].status =
                    IF UuidParse(User(r).UserID).err THEN 400 ELSE 403

\* a host asked to delete another host's venue and was refused
C23_Witness ==
    \E r \in Reqs :
        /\ DeleteAnswered(r) /\ ~OwnsVenue(r)
        /\ IsHost(User(r))
        /\ hctx[r].status = 403
        /\ hctx[r].error = "forbidden: you can only delete your own venues"


-----------------------------------------------------------------------------
(* Creating venues *)

CreateRoutes == {"CreateVenue", "CreateManyVenues"}

\* a create handler answered request r, whose body it accepted
CreateAnswered(r) ==
    /\ hctx[r].route \in CreateRoutes
    /\ hctx[r].status # 0
    /\ hctx[r].error \notin {"invalid request body", "no venues to create"}

\* the venue service was entered for request r
ServiceCalled(r) ==
    \/ hctx[r].svcPc # "none"
    \/ \E e \in storeLog : e.r = r /\ e.op \in CreateRoutes

\* request r left no trace in the venue store or in object storage
NothingCreated(r) ==
    /\ venues = InitialVenues
    /\ ~\E i \in 1..(MaxImages + 1) : <<r, i>> \in bucket

\* C24 as stated: a caller whose role is neither host nor admin gets 403,
\* and no venue is created and no image uploaded
C24_Original ==
    \A r \in Reqs :
        CreateAnswered(r) /\ ~IsHost(User(r)) /\ ~IsAdmin(User(r))
            => hctx[r].status = 403 /\ NothingCreated(r)

\* C24 amended: the venue service is called only for a host or an admin;
\* for any other role no venue is created and no image uploaded, and the
\* answer is 403 when the caller's user ID parses as a UUID and 400 when
\* it does not
C24_CreateRequiresHostOrAdmin ==
    \A r \in Reqs :
        /\ hctx[r].route \in CreateRoutes /\ ServiceCalled(r)
            => IsHost(User(r)) \/ IsAdmin(User(r))
        /\ CreateAnswered(r) /\ ~IsHost(User(r)) /\ ~IsAdmin(User(r))
            => /\ ~ServiceCalled(r)
               /\ NothingCreated(r)
               /\ hctx[r].status =
                    IF UuidParse(User(r).UserID).err THEN 400 ELSE 403

\* a guest with a well-formed user ID asked to create a venue with images
\* and was refused
C24_Witness ==
    \E r \in Reqs :
        /\ hctx[r].route = "CreateVenue"
        /\ User(r).Role = "guest"
        /\ User(r).UserID = UuidA
        /\ hctx[r].status = 403
        /\ hctx[r].error = "only users with host role can create venues"


-----------------------------------------------------------------------------
(* View analytics *)

AnalyticsRoutes == {"GetVenueViewStats", "GetVenueViewHistory"}

\* C25: a venue's view statistics and view history are returned only to a
\* caller who is the host of that venue
C25_AnalyticsHostOnly ==
    \A r \in Reqs :
        hctx[r].route \in AnalyticsRoutes /\ hctx[r].status = 200
            => \E v \in InitialVenues :
                    v.Id = hctx[r].param /\ v.HostId = User(r).UserID

-----------------------------------------------------------------------------
(* The credential handed to the store *)

\* C27: every store call of a handler carries the request's own
\* access_token cookie; on a renewed request that is the credential that
\* failed validation, not the refreshed one the middleware validated and
\* fetched the profile with
C27_StoreGetsCookieCredential ==
    \A e \in storeLog :
        LET c == reqs[e.r]
        IN
        /\ Cookie(c, "access_token")
        /\ e.token = c.cookies["access_token"]
        /\ c.refreshCalls > 0
            => /\ c.firstErr # NoErr
               /\ e.token # c.token
               /\ c.profileCalls > 0 => c.profileToken = c.token

\* a handler called the store on a request whose session was renewed
C27_Witness ==
    \E e \in storeLog :
        /\ e.op = "DeleteVenue"
        /\ reqs[e.r].refreshCalls > 0
        /\ DOMAIN reqs[e.r].setCookies = CookieNames
        /\ e.token.expired
        /\ ~reqs[e.r].token.expired


-----------------------------------------------------------------------------
(* Images of a failed CreateVenue *)

\* C29: once VenuesService.CreateVenue has returned an error and its
\* upload goroutine has ended, no image uploaded for that call is left in
\* object storage
C29_NoImageLeftAfterError ==
    \A r \in Reqs :
        /\ hctx[r].route = "CreateVenue"
        /\ hctx[r].svcPc = "returned"
        /\ hctx[r].svcErr # NoErr
        /\ hctx[r].goroutine # "running"
        => ~\E i \in 1..(MaxImages + 1) : <<r, i>> \in bucket


-----------------------------------------------------------------------------
(* handlers.TrackVenueView and MongodbRepo.TrackVenueView over the
   venue_views collection *)

\* the clock counts hours and stops at MaxClock
MaxClock == 3

\* time.Hour, in ticks of the clock
Hour == 1

\* the 30 days after which the TTL index removes a record, scaled down to
\* ticks of the clock; longer than Hour as 30 days is
Ttl == 2

\* values of the :id parameter of POST /venues/:id/view
ViewParams == {"bad-id", VenueV1}

\* what the session_id cookie holds: "" is a missing or empty cookie
SessionCookies == {"", "s1"}

\* session ids uuid.New() hands out
FreshSessions == <<"f1">>

\* User-Agent headers: a browser, none, a crawler
UserAgents == {"Mozilla/5.0", "", "Googlebot/2.1"}

\* venue_handler.go 444-446
IsBot(userAgent) == userAgent \in {"", "Googlebot/2.1"}

\* the records of the collection; TTL removal clears live
LiveViews == {v \in views : v.live}

\* session ids in use
UsedSessions ==
    {v.session : v \in views} \cup {track[k].session : k \in TrackIds}

\* the positions of FreshSessions not handed out yet
UnusedSessions ==
    {i \in 1..Len(FreshSessions) : FreshSessions[i] \notin UsedSessions}

\* uuid.New().String(): a session id nobody holds
NewSession ==
    FreshSessions[CHOOSE i \in UnusedSessions : \A j \in UnusedSessions : i <= j]

\* start-up creates the indexes of venue_views, the unique index
\* venue_session_unique on (venue_id, session_id) among them
EnsureIndexes ==
    /\ ~viewsIndex
    /\ viewsIndex' = TRUE
    /\ UNCHANGED <<authVars, venues, bucket, storeLog, hctx, views, clock,
                   track, updCall>>

\* POST /venues/:id/view: the handler answers and, unless the caller looks
\* like a bot, starts the tracking goroutine
TrackVenueViewHandler(k) ==
    /\ viewsIndex
    /\ track[k].pc \in {"idle", "done"}
    /\ \E venueID \in ViewParams, cookie \in SessionCookies,
          userAgent \in UserAgents :
        LET parsedId == UuidParse(venueID)
            sessionId == IF cookie = "" THEN NewSession ELSE cookie
        IN
        /\ cookie = "" => UnusedSessions # {}
        /\ track' = [track EXCEPT ![k] =
                IF parsedId.err
                THEN With(NoTrack, [pc |-> "done", status |-> 400])
                ELSE IF IsBot(userAgent)
                THEN With(NoTrack, [pc |-> "done", status |-> 200,
                                    venue |-> parsedId.id, session |-> sessionId,
                                    setSession |-> cookie = ""])
                ELSE With(NoTrack, [pc |-> "find", status |-> 200,
                                    venue |-> parsedId.id, session |-> sessionId,
                                    setSession |-> cookie = ""])]
    /\ UNCHANGED <<authVars, venues, bucket, storeLog, hctx, views, viewsIndex,
                   clock, updCall>>

\* the FindOne of TrackVenueView: a record of the pair viewed within the
\* last hour ends the call with nil
TrackFind(k) ==
    /\ track[k].pc = "find"
    /\ LET oneHourAgo == clock - Hour
           recent == {v \in LiveViews :
                        /\ v.venue = track[k].venue
                        /\ v.session = track[k].session
                        /\ v.viewedAt >= oneHourAgo}
       IN track' = [track EXCEPT ![k] =
            IF recent # {}
            THEN With(@, [pc |-> "done", outcome |-> "recent", ret |-> "nil"])
            ELSE With(@, [pc |-> "insert"])]
    /\ UNCHANGED <<authVars, venues, bucket, storeLog, hctx, views, viewsIndex,
                   clock, updCall>>

\* an InsertOne into a collection that takes every record
TrackInsert_NoUniqueIndex(k) ==
    /\ track[k].pc = "insert"
    /\ \E ans \in StoreAnswers :
        IF ans = "error"
        THEN /\ track' = [track EXCEPT ![k] =
                    With(@, [pc |-> "done", outcome |-> "failed", ret |-> "error"])]
             /\ UNCHANGED views
        ELSE /\ views' = views \cup
                    {[id |-> Cardinality(views) + 1, venue |-> track[k].venue,
                      session |-> track[k].session, viewedAt |-> clock,
                      expiresAt |-> clock + Ttl, live |-> TRUE]}
             /\ track' = [track EXCEPT ![k] =
                    With(@, [pc |-> "done", outcome |-> "stored", ret |-> "nil"])]
    /\ UNCHANGED <<authVars, venues, bucket, storeLog, hctx, viewsIndex, clock,
                   updCall>>

\* the InsertOne of TrackVenueView: the unique index refuses a second
\* record of the pair with a duplicate key error, which the call turns
\* into nil
TrackInsert(k) ==
    /\ track[k].pc = "insert"
    /\ \E ans \in StoreAnswers :
        LET duplicate ==
                /\ viewsIndex
                /\ \E v \in LiveViews :
                        v.venue = track[k].venue /\ v.session = track[k].session
        IN
        IF ans = "error"
        THEN /\ track' = [track EXCEPT ![k] =
                    With(@, [pc |-> "done", outcome |-> "failed", ret |-> "error"])]
             /\ UNCHANGED views
        ELSE IF duplicate
        THEN /\ track' = [track EXCEPT ![k] =
                    With(@, [pc |-> "done", outcome |-> "duplicate", ret |-> "nil"])]
             /\ UNCHANGED views
        ELSE /\ views' = views \cup
                    {[id |-> Cardinality(views) + 1, venue |-> track[k].venue,
                      session |-> track[k].session, viewedAt |-> clock,
                      expiresAt |-> clock + Ttl, live |-> TRUE]}
             /\ track' = [track EXCEPT ![k] =
                    With(@, [pc |-> "done", outcome |-> "stored", ret |-> "nil"])]
    /\ UNCHANGED <<authVars, venues, bucket, storeLog, hctx, viewsIndex, clock,
                   updCall>>

\* half an hour passes
Tick ==
    /\ clock < MaxClock
    /\ clock' = clock + 1
    /\ UNCHANGED <<authVars, venues, bucket, storeLog, hctx, views, viewsIndex,
                   track, updCall>>

\* the TTL index expires_at_ttl removes a record whose expires_at passed
ExpireView ==
    /\ \E v \in LiveViews :
        /\ v.expiresAt <= clock
        /\ views' = (views \ {v}) \cup {[v EXCEPT !.live = FALSE]}
    /\ UNCHANGED <<authVars, venues, bucket, storeLog, hctx, viewsIndex, clock,
                   track, updCall>>

ViewNext ==
    \/ EnsureIndexes
    \/ \E k \in TrackIds : TrackVenueViewHandler(k)
    \/ \E k \in TrackIds : TrackFind(k)
    \/ \E k \in TrackIds : TrackInsert(k)
    \/ Tick
    \/ ExpireView

InitView == InitSmall /\ supabaseURL # ""

ViewSpec == InitView /\ [][ViewNext]_vars


-----------------------------------------------------------------------------
(* Rate limiting of view tracking *)

SamePair(v, w) == v.venue = w.venue /\ v.session = w.session

\* at most one record of a (venue, session) pair is in the collection, and
\* any two records of a pair ever stored lie more than an hour apart
OnePerWindow ==
    \A v, w \in views :
        v.id # w.id /\ SamePair(v, w)
            => /\ ~(v.live /\ w.live)
               /\ v.viewedAt - w.viewedAt > Hour \/ w.viewedAt - v.viewedAt > Hour

\* a call that found a recent record or collided with the unique index
\* returned nil and left the collection as it was
QuietReturn ==
    \A k \in TrackIds :
        /\ track[k].pc = "insert" \/ track[k].pc = "find"
        /\ track'[k].outcome \in {"recent", "duplicate"}
        => track'[k].ret = "nil" /\ views' = views

-----------------------------------------------------------------------------
(* SupabaseRepo.UpdateVenue and Coordinates.Value *)

\* keys of a partial update
UpdateKeys == {"description", "capacity", "coordinates"}

\* latitude and longitude pairs
Points == {[Latitude |-> 37, Longitude |-> -122], [Latitude |-> 0, Longitude |-> 5]}

\* interface{} values of the map, tagged with their dynamic type; pointers
\* are non-nil
StringValue(s) == [type |-> "string", s |-> s, n |-> 0, at |-> << >>]

IntValue(n) == [type |-> "int", s |-> "", n |-> n, at |-> << >>]

NilValue == [type |-> "nil", s |-> "", n |-> 0, at |-> << >>]

CoordinatesValue(ptr, c) ==
    [type |-> IF ptr THEN "*Coordinates" ELSE "Coordinates", s |-> "", n |-> 0,
     at |-> <<c.Latitude, c.Longitude>>]

\* the text fmt.Sprintf("SRID=4326;POINT(%f %f)", x, y) prints, as the
\* sequence of its parts
PointText(x, y) == <<"SRID=4326;POINT(", x, " ", y, ")">>

\* events.go 166-168: Coordinates.Value prints the longitude, then the
\* latitude, and never fails
Value(c) ==
    [type |-> "string", s |-> "", n |-> 0, at |-> PointText(c.at[2], c.at[1])]

\* the values a key can carry
ValuesOf(key) ==
    IF key = "description" THEN {StringValue("New description"), NilValue}
    ELSE IF key = "capacity" THEN {IntValue(200)}
    ELSE {CoordinatesValue(ptr, c) : ptr \in BOOLEAN, c \in Points}
            \cup {StringValue("SRID=4326;POINT(1 2)"), NilValue}

\* the maps a caller can pass
UpdateMaps ==
    UNION {{m \in [K -> UNION {ValuesOf(k) : k \in UpdateKeys}] :
                \A k \in K : m[k] \in ValuesOf(k)} : K \in SUBSET UpdateKeys}

\* the processing of TestPartialUpdateDataProcessing: only a Coordinates
\* value is converted, any other "coordinates" value is left out
PrepareUpdate_ValueOnly(venue) ==
    [key \in {k \in DOMAIN venue :
                k = "coordinates" => venue[k].type = "Coordinates"} |->
        IF key = "coordinates" THEN Value(venue[key]) ELSE venue[key]]

\* part_006 257-278: the loop that builds updateData
PrepareUpdate(venue) ==
    [key \in DOMAIN venue |->
        IF key = "coordinates" /\ venue[key].type \in {"*Coordinates", "Coordinates"}
        THEN Value(venue[key])
        ELSE venue[key]]

\* the calls of the update specification
InitUpdate ==
    /\ server = "serving"
    /\ supabaseURL = "https://bashbay.supabase.co"
    /\ ginMode = "production"
    /\ idpSessions = {"r1"}
    /\ idpNext = 2
    /\ workload = SmallWorkload
    /\ reqs = [r \in ReqIds |-> NewContext]
    /\ venues = InitialVenues
    /\ bucket = {}
    /\ storeLog = {}
    /\ hctx = [r \in ReqIds |-> NoHandler]
    /\ views = {}
    /\ viewsIndex = FALSE
    /\ clock = 0
    /\ track = [k \in TrackIds |-> NoTrack]
    /\ updCall \in
        {With(NoUpdate, [pc |-> "called", host_id |-> h, venue_id |-> VenueV1,
                         venue |-> m]) : h \in {UuidA, UuidB}, m \in UpdateMaps}

\* SupabaseRepo.UpdateVenue: an empty map is refused before anything is
\* sent; the update reaches the row with the id and the host_id
UpdateVenue ==
    /\ updCall.pc = "called"
    /\ \E ans \in StoreAnswers :
        LET venue == updCall.venue
            updateData == PrepareUpdate(venue)
            count == Cardinality({v \in venues :
                        v.Id = updCall.venue_id /\ v.HostId = updCall.host_id})
        IN
        updCall' =
            IF DOMAIN venue = {}
            THEN With(updCall, [pc |-> "returned", err |-> "no fields to update"])
            ELSE IF ans = "error"
            THEN With(updCall, [pc |-> "returned", updateData |-> updateData,
                                err |-> "failed to update venue"])
            ELSE IF count = 0
            THEN With(updCall, [pc |-> "returned", updateData |-> updateData,
                                err |-> "no venue was updated"])
            ELSE With(updCall, [pc |-> "returned", updateData |-> updateData,
                                written |-> TRUE])
    /\ UNCHANGED <<authVars, venues, bucket, storeLog, hctx, viewVars>>

UpdateNext == UpdateVenue

UpdateSpec == InitUpdate /\ [][UpdateNext]_vars

-----------------------------------------------------------------------------
(* Preparation of a partial update *)

=============================================================================
